---------------------------- MODULE Spec2Model ----------------------------
(***************************************************************************)
(* A model of codebase2file (src/main.py): the exclusion policy            *)
(* is_ignored, the structural listing get_directory_structure with its     *)
(* counting walks count_files / count_excluded_files, and the content walk *)
(* of process_directory.                                                   *)
(*                                                                         *)
(* Strings are sequences of one-character strings, so that the string      *)
(* functions of the program (strip, lower, splitext, basename, fnmatch,    *)
(* normpath, ...) are computed and not assumed.                            *)
(***************************************************************************)
EXTENDS Integers, Sequences, FiniteSets, TLC

(***************************************************************************)
(* Characters and strings                                                  *)
(***************************************************************************)

\* The characters of the modelled strings, in code-point order (the order
\* Python's sorted() compares str by).
CodeOrder ==
    << " ", "!", "#", "*", ",", ".", "/",
       "0", "1", "2", "3", "4", "5", "6", "7", "8", "9", "?",
       "A", "B", "C", "D", "E", "F", "G", "H", "I", "J", "K", "L", "M",
       "N", "O", "P", "Q", "R", "S", "T", "U", "V", "W", "X", "Y", "Z",
       "[", "]", "_",
       "a", "b", "c", "d", "e", "f", "g", "h", "i", "j", "k", "l", "m",
       "n", "o", "p", "q", "r", "s", "t", "u", "v", "w", "x", "y", "z" >>

CharSet == {CodeOrder[i] : i \in 1..Len(CodeOrder)}

Ord == [c \in CharSet |-> CHOOSE i \in 1..Len(CodeOrder) : CodeOrder[i] = c]

UpperCase == {"A", "B", "C", "D", "E", "F", "G", "H", "I", "J", "K", "L", "M",
              "N", "O", "P", "Q", "R", "S", "T", "U", "V", "W", "X", "Y", "Z"}

Digits == {"0", "1", "2", "3", "4", "5", "6", "7", "8", "9"}

\* str.lower() on one character: 'A'..'Z' are 32 code points below 'a'..'z';
\* in CodeOrder the three characters "[", "]", "_" lie between them.
LowerChar(c) == IF c \in UpperCase THEN CodeOrder[Ord[c] + 29] ELSE c

\* str.lower()
Lower(s) == [i \in 1..Len(s) |-> LowerChar(s[i])]

\* s[a:b] of Python with 0 <= a, b (0-based, b exclusive), clipped.
Slice(s, a, b) ==
    LET hi == IF b > Len(s) THEN Len(s) ELSE b
    IN  IF a >= hi THEN << >> ELSE SubSeq(s, a + 1, hi)

\* s[a:]
From(s, a) == Slice(s, a, Len(s))

\* s.startswith(p)
StartsWith(s, p) == Len(p) <= Len(s) /\ \A i \in 1..Len(p) : s[i] = p[i]

\* s.endswith(p)
EndsWith(s, p) ==
    Len(p) <= Len(s) /\ \A i \in 1..Len(p) : s[Len(s) - Len(p) + i] = p[i]

\* sub in s
Contains(s, sub) ==
    \E k \in 0..(Len(s) - Len(sub)) : \A i \in 1..Len(sub) : s[k + i] = sub[i]

\* s.rfind(c): 0-based index of the last c, -1 when there is none.
RFind(s, c) ==
    LET at == SelectSeq([i \in 1..Len(s) |-> i], LAMBDA i : s[i] = c)
    IN  IF at = << >> THEN -1 ELSE at[Len(at)] - 1

\* str.strip(): whitespace removed at both ends.
Strip(s) ==
    IF \A i \in 1..Len(s) : s[i] = " " THEN << >>
    ELSE LET a == CHOOSE i \in 1..Len(s) : s[i] # " " /\ \A j \in 1..(i-1) : s[j] = " "
             b == CHOOSE i \in 1..Len(s) : s[i] # " " /\ \A j \in (i+1)..Len(s) : s[j] = " "
         IN  Slice(s, a - 1, b)

\* s.split(sep) for a one-character separator: the pieces, empty ones kept.
\* cut holds the positions of the separators, in ascending order.
Split(s, sep) ==
    LET cut == SelectSeq([i \in 1..Len(s) |-> i], LAMBDA i : s[i] = sep)
        n   == Len(cut)
    IN  [k \in 1..(n + 1) |->
            SubSeq(s, IF k = 1 THEN 1 ELSE cut[k - 1] + 1,
                      IF k = n + 1 THEN Len(s) ELSE cut[k] - 1)]

\* sep.join(parts)
RECURSIVE Join(_, _)
Join(parts, sep) ==
    IF parts = << >> THEN << >>
    ELSE IF Len(parts) = 1 THEN parts[1]
    ELSE parts[1] \o sep \o Join(Tail(parts), sep)

\* a < b for str (code-point lexicographic order).
RECURSIVE StrLess(_, _)
StrLess(a, b) ==
    IF b = << >> THEN FALSE
    ELSE IF a = << >> THEN TRUE
    ELSE IF a[1] # b[1] THEN Ord[a[1]] < Ord[b[1]]
    ELSE StrLess(Tail(a), Tail(b))

\* sorted(items) for a set of distinct strings.
RECURSIVE Sorted(_)
Sorted(S) ==
    IF S = {} THEN << >>
    ELSE LET m == CHOOSE x \in S : \A y \in S \ {x} : StrLess(x, y)
         IN  << m >> \o Sorted(S \ {m})

(***************************************************************************)
(* Paths (posixpath) and glob matching (fnmatch)                           *)
(***************************************************************************)

Sep == << "/" >>

\* The working directory of the process (read by os.path.abspath for a
\* relative path).
Cwd == << "/", "w" >>

\* os.path.join(a, b)
PathJoin(a, b) ==
    IF StartsWith(b, Sep) THEN b
    ELSE IF a = << >> \/ EndsWith(a, Sep) THEN a \o b
    ELSE a \o Sep \o b

\* os.path.basename(p)
Basename(p) == From(p, RFind(p, "/") + 1)

\* os.path.dirname(p), for the absolute paths of the model.
Dirname(p) ==
    LET i == RFind(p, "/") + 1
        head == Slice(p, 0, i)
    IN  IF head # << >> /\ \E k \in 1..Len(head) : head[k] # "/"
        THEN Slice(head, 0, CHOOSE k \in 1..Len(head) :
                                head[k] # "/" /\ \A j \in (k+1)..Len(head) : head[j] = "/")
        ELSE head

\* os.path.splitext(p)[1]: from the last dot of the basename on, unless only
\* dots precede it in the basename.
SplitextExt(p) ==
    LET sepIndex == RFind(p, "/")
        dotIndex == RFind(p, ".")
    IN  IF dotIndex > sepIndex
           /\ \E k \in (sepIndex + 1)..(dotIndex - 1) : p[k + 1] # "."
        THEN From(p, dotIndex)
        ELSE << >>

\* os.path.normpath: the body of the loop over the components; acc is
\* new_comps.
NormStep(acc, comp, rooted) ==
    IF comp = << >> \/ comp = << "." >> THEN acc
    ELSE IF comp # << ".", "." >>
            \/ (~rooted /\ acc = << >>)
            \/ (acc # << >> /\ acc[Len(acc)] = << ".", "." >>)
         THEN Append(acc, comp)
    ELSE IF acc # << >> THEN SubSeq(acc, 1, Len(acc) - 1)
    ELSE acc

\* os.path.normpath: the loop over the components.
RECURSIVE NormComps(_, _, _)
NormComps(comps, acc, rooted) ==
    IF comps = << >> THEN acc
    ELSE NormComps(Tail(comps), NormStep(acc, Head(comps), rooted), rooted)

\* os.path.normpath(path) (POSIX; a path starting with exactly two slashes
\* keeps both).
Normpath(path) ==
    IF path = << >> THEN << "." >>
    ELSE LET slashes == IF ~StartsWith(path, Sep) THEN 0
                        ELSE IF StartsWith(path, << "/", "/" >>)
                                /\ ~StartsWith(path, << "/", "/", "/" >>) THEN 2
                        ELSE 1
             comps == NormComps(Split(path, "/"), << >>, slashes > 0)
             body == Join(comps, Sep)
             out == (IF slashes = 2 THEN << "/", "/" >>
                     ELSE IF slashes = 1 THEN Sep ELSE << >>) \o body
         IN  IF out = << >> THEN << "." >> ELSE out

\* os.path.abspath(path)
Abspath(path) ==
    Normpath(IF StartsWith(path, Sep) THEN path ELSE PathJoin(Cwd, path))

\* The non-empty components of a path.
Comps(p) == SelectSeq(Split(p, "/"), LAMBDA x : x # << >>)

\* Length of the common prefix of two component lists.
RECURSIVE CommonLen(_, _)
CommonLen(a, b) ==
    IF a = << >> \/ b = << >> \/ Head(a) # Head(b) THEN 0
    ELSE 1 + CommonLen(Tail(a), Tail(b))

\* os.path.relpath(path, start)
Relpath(path, start) ==
    LET startList == Comps(Abspath(start))
        pathList  == Comps(Abspath(path))
        i         == CommonLen(startList, pathList)
        relList   == [k \in 1..(Len(startList) - i) |-> << ".", "." >>]
                     \o SubSeq(pathList, i + 1, Len(pathList))
    IN  IF relList = << >> THEN << "." >> ELSE Join(relList, Sep)

\* fnmatch: the index of the "]" that closes the class opened at pat[j] = "[",
\* or 0 when it is not closed (the "[" is then literal).
ClassEnd(pat, j) ==
    LET a == IF j + 1 <= Len(pat) /\ pat[j + 1] = "!" THEN j + 2 ELSE j + 1
        b == IF a <= Len(pat) /\ pat[a] = "]" THEN a + 1 ELSE a
    IN  IF \E k \in b..Len(pat) : pat[k] = "]"
        THEN CHOOSE k \in b..Len(pat) : pat[k] = "]" /\ \A m \in b..(k-1) : pat[m] # "]"
        ELSE 0

\* fnmatch: whether character c is in the class pat[j..k] = "[...]".
InClass(c, pat, j, k) ==
    LET stuff == SubSeq(pat, j + 1, k - 1)
    IN  IF stuff[1] = "!"
        THEN \A m \in 2..Len(stuff) : stuff[m] # c
        ELSE \E m \in 1..Len(stuff) : stuff[m] = c

\* fnmatch: the ways to go on from name[i..] against pat[j..], j within the
\* pattern: the positions << i', j' >> left after pat[j] has matched ("*"
\* matches nothing, or one more character and stays).
MatchSteps(name, pat, i, j) ==
    IF pat[j] = "*"
    THEN {<< i, j + 1 >>} \cup (IF i <= Len(name) THEN {<< i + 1, j >>} ELSE {})
    ELSE IF i > Len(name) THEN {}
    ELSE IF pat[j] = "?" THEN {<< i + 1, j + 1 >>}
    ELSE IF pat[j] = "[" /\ ClassEnd(pat, j) # 0
         THEN IF InClass(name[i], pat, j, ClassEnd(pat, j))
              THEN {<< i + 1, ClassEnd(pat, j) + 1 >>} ELSE {}
    ELSE IF name[i] = pat[j] THEN {<< i + 1, j + 1 >>} ELSE {}

\* fnmatch: name[i..] matches pat[j..].
RECURSIVE MatchFrom(_, _, _, _)
MatchFrom(name, pat, i, j) ==
    IF j > Len(pat) THEN i > Len(name)
    ELSE \E step \in MatchSteps(name, pat, i, j) : MatchFrom(name, pat, step[1], step[2])

\* fnmatch.fnmatch(name, pat) on POSIX (normcase is the identity there).
FnMatch(name, pat) == MatchFrom(name, pat, 1, 1)

\* re.search(r'\d{5,}', s)
HasDigitRun(s) ==
    \E k \in 0..(Len(s) - 5) : \A i \in 1..5 : s[k + i] \in Digits

(***************************************************************************)
(* Names: string literals of the program and the names of the modelled     *)
(* inputs                                                                  *)
(***************************************************************************)

\* '.gitignore' (read_gitignore) and '.git/' (process_directory)
GitignoreName == << ".", "g", "i", "t", "i", "g", "n", "o", "r", "e" >>
GitDirPattern == << ".", "g", "i", "t", "/" >>
\* 'cache' (is_ignored), '..' and '.txt' (main)
CacheWord == << "c", "a", "c", "h", "e" >>
DotDot == << ".", "." >>
DotTxt == << ".", "t", "x", "t" >>

\* The scanned directory and the argument naming it.
RootDir == << "/", "p" >>
DirectoryArg == << "/", "p", "/" >>

\* Entry names.
APy == << "a", ".", "p", "y" >>
BTxt == << "b", ".", "t", "x", "t" >>
CMd == << "c", ".", "m", "d" >>
ImgPY == << "I", "M", "G", ".", "P", "Y" >>
NMd == << "n", ".", "m", "d" >>
CacheLog == << "c", "a", "c", "h", "e", "1", "2", "3", "4", "5", ".", "l", "o", "g" >>
F12345Py == << "f", "1", "2", "3", "4", "5", ".", "p", "y" >>
Dead == << "d", "e", "a", "d" >>
OutTxt == << "o", "u", "t", ".", "t", "x", "t" >>
Locked == << "l", "o", "c", "k", "e", "d" >>
Hidden == << ".", "h", "i", "d", "d", "e", "n" >>
SecretTxt == << "s", "e", "c", "r", "e", "t", ".", "t", "x", "t" >>
NodeModulesCache == << "n", "o", "d", "e", "_", "m", "o", "d", "u", "l", "e", "s",
                       "_", "c", "a", "c", "h", "e" >>
XJs == << "x", ".", "j", "s" >>
Build == << "b", "u", "i", "l", "d" >>
Src == << "s", "r", "c" >>
MPy == << "m", ".", "p", "y" >>
Lib == << "l", "i", "b" >>
DPy == << "d", ".", "p", "y" >>
D12345 == << "d", "1", "2", "3", "4", "5" >>
Docs == << "d", "o", "c", "s" >>
RMd == << "r", ".", "m", "d" >>

\* Lines of an ignore-file: "build/", "# tmp", " *.txt ", "/[sd]?c*/".
PatBuild == << "b", "u", "i", "l", "d", "/" >>
PatComment == << "#", " ", "t", "m", "p" >>
PatTxt == << " ", "*", ".", "t", "x", "t", " " >>
PatMixed == << "/", "[", "s", "d", "]", "?", "c", "*", "/" >>

\* Values of -e: "py,md" and "TXT".
ExtPyMd == << "p", "y", ",", "m", "d" >>
ExtTXT == << "T", "X", "T" >>

\* Values of -o: "/p/out.txt" and "/p/build/../build/o.txt".
OutInside == << "/", "p", "/", "o", "u", "t", ".", "t", "x", "t" >>
OutInBuild == << "/", "p", "/", "b", "u", "i", "l", "d", "/", ".", ".", "/",
                 "b", "u", "i", "l", "d", "/", "o", ".", "t", "x", "t" >>

(***************************************************************************)
(* The state: the command line, the filesystem, and the run                *)
(***************************************************************************)

VARIABLES
    outputArg,       \* args.output: a path, or None
    extensionsArg,   \* args.extensions: a string ("" when -e is absent)
    tree,            \* the filesystem: absolute path |-> kind of entry
    gitignoreLines,  \* the lines of <root>/.gitignore when that file exists
    pc,              \* position of the run
    directory,       \* directory_path of main / directory of process_directory
    output_file,     \* output_file
    extensions,      \* extensions (a list of strings)
    patterns,        \* patterns (a list of strings)
    structure,       \* the lines returned by get_directory_structure
    stack,           \* os.walk: the directories still to be walked
    walkRoot,        \* os.walk: the directory being visited (root)
    walkFiles,       \* os.walk: the files of walkRoot not yet looped over
    written          \* the file entries written to the content section

vars == << outputArg, extensionsArg, tree, gitignoreLines, pc, directory,
           output_file, extensions, patterns, structure, stack, walkRoot,
           walkFiles, written >>

\* None, as a value comparable with strings and equal to none of them.
None == << "None" >>

\* Kinds of filesystem entry.  "file": a regular file holding UTF-8 text;
\* "binary": a regular file that is not valid UTF-8; "unreadable": a regular
\* file that open() refuses; "dir": a directory; "lockeddir": a directory
\* that os.listdir / os.scandir refuse; "dangling": a symbolic link whose
\* target is missing (every stat of it fails).
FileKinds == {"file", "binary", "unreadable"}
DirKinds == {"dir", "lockeddir"}
Kinds == FileKinds \cup DirKinds \cup {"dangling"}

KindOf(path) == IF path \in DOMAIN tree THEN tree[path] ELSE "absent"

\* os.path.isdir(path)
IsDir(path) == KindOf(path) \in DirKinds

\* os.path.isfile(path)
IsFile(path) == KindOf(path) \in FileKinds

\* os.path.exists(path)
Exists(path) == KindOf(path) \in FileKinds \cup DirKinds

\* os.listdir(d), as a set of names (the order is the filesystem's).
Listdir(d) ==
    {Basename(q) : q \in {r \in DOMAIN tree : Len(r) > Len(d) /\ Dirname(r) = d}}

\* os.path.realpath(path); the modelled trees hold no symbolic link to an
\* existing target, so nothing is resolved beyond abspath.
Realpath(path) == Abspath(path)

\* The elements of a list.
Elems(s) == {s[i] : i \in 1..Len(s)}

\* The orders in which a set can be enumerated.
Orderings(S) ==
    {q \in [1..Cardinality(S) -> S] : \A i, j \in 1..Cardinality(S) : i # j => q[i] # q[j]}

(***************************************************************************)
(* read_gitignore and is_ignored                                           *)
(***************************************************************************)

\* read_gitignore: the loop over the lines of the file.
RECURSIVE GitignorePatterns(_)
GitignorePatterns(lines) ==
    IF lines = << >> THEN << >>
    ELSE LET stripped == Strip(Head(lines))
         IN  (IF stripped # << >> /\ ~StartsWith(stripped, << "#" >>)
              THEN << stripped >> ELSE << >>)
             \o GitignorePatterns(Tail(lines))

\* read_gitignore(directory)
read_gitignore(dir) ==
    IF Exists(PathJoin(dir, GitignoreName))
    THEN GitignorePatterns(gitignoreLines)
    ELSE << >>

\* The pattern as is_ignored matches it: one leading and one trailing "/"
\* removed.
NormalizePattern(pattern) ==
    LET p1 == IF StartsWith(pattern, Sep) THEN From(pattern, 1) ELSE pattern
    IN  IF EndsWith(p1, Sep) THEN Slice(p1, 0, Len(p1) - 1) ELSE p1

\* The three tests of one pass of the pattern loop of is_ignored, p being
\* the normalized pattern and rel the path relative to the root.
PatternTests(path, p, rel, root) ==
    \/ FnMatch(path, PathJoin(root, p))
    \/ FnMatch(rel, p)
    \/ (IsDir(path) /\ FnMatch(path, PathJoin(root, p \o << "/", "*" >>)))
    \/ \E part \in Elems(Split(rel, "/")) : FnMatch(part, p)

\* One pass of the pattern loop of is_ignored; rel is
\* os.path.relpath(path, root), the same in every pass.
PatternExcludes(path, rel, pattern, root) ==
    PatternTests(path, NormalizePattern(pattern), rel, root)

\* The pattern loop of is_ignored: the first pattern that excludes returns.
RECURSIVE PatternLoop(_, _, _, _)
PatternLoop(path, rel, pats, root) ==
    IF pats = << >> THEN FALSE
    ELSE IF PatternExcludes(path, rel, Head(pats), root) THEN TRUE
    ELSE PatternLoop(path, rel, Tail(pats), root)

\* The extension test at the end of is_ignored.
\* A variant of the extension test that leaves out os.path.isfile.
ExtensionExcludes_NoFileCheck(path, exts) ==
    /\ exts # << >>
    /\ Lower(From(SplitextExt(path), 1)) \notin Elems(exts)

ExtensionExcludes(path, exts) ==
    /\ IsFile(path)
    /\ exts # << >>
    /\ Lower(From(SplitextExt(path), 1)) \notin Elems(exts)

\* Variants of is_ignored, each with one rule changed. is_ignored_DotFiles
\* applies the dot rule to files as well as directories.
is_ignored_DotFiles(path, pats, root, out, exts) ==
    IF Abspath(path) = Abspath(out) THEN TRUE
    ELSE IF StartsWith(Basename(path), << "." >>) THEN TRUE
    ELSE IF Contains(Lower(Basename(path)), CacheWord) THEN TRUE
    ELSE IF IsFile(path) /\ HasDigitRun(Basename(path)) THEN TRUE
    ELSE IF PatternLoop(path, Relpath(path, root), pats, root) THEN TRUE
    ELSE IF ExtensionExcludes(path, exts) THEN TRUE
    ELSE FALSE

\* is_ignored_NoSelf does not compare the path with the output file.
is_ignored_NoSelf(path, pats, root, out, exts) ==
    IF IsDir(path) /\ StartsWith(Basename(path), << "." >>) THEN TRUE
    ELSE IF Contains(Lower(Basename(path)), CacheWord) THEN TRUE
    ELSE IF IsFile(path) /\ HasDigitRun(Basename(path)) THEN TRUE
    ELSE IF PatternLoop(path, Relpath(path, root), pats, root) THEN TRUE
    ELSE IF ExtensionExcludes(path, exts) THEN TRUE
    ELSE FALSE

\* is_ignored_AllowFirst lets a listed extension include a file before the
\* digit rule and the patterns are tried.
is_ignored_AllowFirst(path, pats, root, out, exts) ==
    IF Abspath(path) = Abspath(out) THEN TRUE
    ELSE IF IsDir(path) /\ StartsWith(Basename(path), << "." >>) THEN TRUE
    ELSE IF Contains(Lower(Basename(path)), CacheWord) THEN TRUE
    ELSE IF IsFile(path) /\ exts # << >>
            /\ Lower(From(SplitextExt(path), 1)) \in Elems(exts) THEN FALSE
    ELSE IF IsFile(path) /\ HasDigitRun(Basename(path)) THEN TRUE
    ELSE IF PatternLoop(path, Relpath(path, root), pats, root) THEN TRUE
    ELSE IF ExtensionExcludes(path, exts) THEN TRUE
    ELSE FALSE

is_ignored(path, pats, root, out, exts) ==
    IF Abspath(path) = Abspath(out) THEN TRUE
    ELSE IF IsDir(path) /\ StartsWith(Basename(path), << "." >>) THEN TRUE
    ELSE IF Contains(Lower(Basename(path)), CacheWord) THEN TRUE
    ELSE IF IsFile(path) /\ HasDigitRun(Basename(path)) THEN TRUE
    ELSE IF PatternLoop(path, Relpath(path, root), pats, root) THEN TRUE
    ELSE IF ExtensionExcludes(path, exts) THEN TRUE
    ELSE FALSE

(***************************************************************************)
(* os.walk, the counting walks and the structural listing                  *)
(***************************************************************************)

\* Whether os.listdir / os.scandir of d succeed.
CanList(d) == KindOf(d) = "dir"

\* os.walk(top): the dirs of the triple yielded for top (entries that
\* scandir reports as directories).
WalkDirs(top) == {n \in Listdir(top) : IsDir(PathJoin(top, n))}

\* os.walk(top): the files of the triple yielded for top (every entry that
\* is not a directory, a dangling link included).
WalkNondirs(top) == {n \in Listdir(top) : ~IsDir(PathJoin(top, n))}

\* count_files: os.walk yields nothing for a directory it cannot scan.
RECURSIVE count_files(_, _, _, _, _), CountFilesEach(_, _, _, _, _, _)
count_files(dir, pats, root_dir, out, exts) ==
    IF ~CanList(dir) THEN 0
    ELSE Cardinality({f \in WalkNondirs(dir) :
                        ~is_ignored(PathJoin(dir, f), pats, root_dir, out, exts)})
         + CountFilesEach(
               Sorted({d \in WalkDirs(dir) :
                         ~is_ignored(PathJoin(dir, d), pats, root_dir, out, exts)}),
               dir, pats, root_dir, out, exts)

\* count_files: the descent of os.walk into the directories left in dirs
\* (a sum, so the order the directories are taken in does not matter).
CountFilesEach(names, top, pats, root_dir, out, exts) ==
    IF names = << >> THEN 0
    ELSE count_files(PathJoin(top, Head(names)), pats, root_dir, out, exts)
         + CountFilesEach(Tail(names), top, pats, root_dir, out, exts)

RECURSIVE count_excluded_files(_, _, _, _, _), CountExcludedEach(_, _, _, _, _, _)
count_excluded_files(dir, pats, root_dir, out, exts) ==
    IF ~CanList(dir) THEN 0
    ELSE Cardinality({f \in WalkNondirs(dir) :
                        is_ignored(PathJoin(dir, f), pats, root_dir, out, exts)})
         + CountExcludedEach(
               Sorted(WalkDirs(dir)
                      \ {d \in WalkDirs(dir) :
                           is_ignored(PathJoin(dir, d), pats, root_dir, out, exts)}),
               dir, pats, root_dir, out, exts)

\* count_excluded_files: the descent of os.walk into the directories left.
CountExcludedEach(names, top, pats, root_dir, out, exts) ==
    IF names = << >> THEN 0
    ELSE count_excluded_files(PathJoin(top, Head(names)), pats, root_dir, out, exts)
         + CountExcludedEach(Tail(names), top, pats, root_dir, out, exts)

\* One line of the structural listing.  kind is "dir", "file", "denied",
\* "error", or one of the five lines of the statistics block; indent counts
\* the indentation units; path is the entry the line stands for, or the
\* directory whose listing failed (it is not part of the text).
Line(kind, indent, name, path, count) ==
    [kind |-> kind, indent |-> indent, name |-> name, path |-> path, count |-> count]

\* The statistics block appended by the root call.
StatisticsLines(total_included, total_excluded) ==
    << Line("blank", 0, << >>, << >>, 0),
       Line("header", 0, << >>, << >>, 0),
       Line("included", 0, << >>, << >>, total_included),
       Line("excluded", 0, << >>, << >>, total_excluded),
       Line("total", 0, << >>, << >>, total_included + total_excluded) >>

Statistics(dir, pats, root_dir, out, exts) ==
    StatisticsLines(count_files(dir, pats, root_dir, out, exts),
                    count_excluded_files(dir, pats, root_dir, out, exts))

RECURSIVE get_directory_structure(_, _, _, _, _, _)

\* A variant of the body of the loop "for d in dirs" that lists every
\* subdirectory, excluded or not.
DirBody_NoPrune(d, path, pats, root_dir, out, exts, indent) ==
    << Line("dir", indent, d, path, count_files(path, pats, root_dir, out, exts)) >>
    \o get_directory_structure(path, pats, root_dir, out, exts, indent + 1)

\* get_directory_structure: the body of the loop "for d in dirs".
DirBody(d, path, pats, root_dir, out, exts, indent) ==
    IF ~is_ignored(path, pats, root_dir, out, exts)
    THEN << Line("dir", indent, d, path, count_files(path, pats, root_dir, out, exts)) >>
         \o get_directory_structure(path, pats, root_dir, out, exts, indent + 1)
    ELSE << >>

\* get_directory_structure: the loop "for d in dirs".
RECURSIVE DirLoop(_, _, _, _, _, _, _)
DirLoop(dirs, dir, pats, root_dir, out, exts, indent) ==
    IF dirs = << >> THEN << >>
    ELSE DirBody(Head(dirs), PathJoin(dir, Head(dirs)), pats, root_dir, out, exts, indent)
         \o DirLoop(Tail(dirs), dir, pats, root_dir, out, exts, indent)

\* get_directory_structure: the body of the loop "for f in files".
FileBody(f, path, pats, root_dir, out, exts, indent) ==
    IF ~is_ignored(path, pats, root_dir, out, exts)
    THEN << Line("file", indent, f, path, 0) >>
    ELSE << >>

\* get_directory_structure: the loop "for f in files".
RECURSIVE FileLoop(_, _, _, _, _, _, _)
FileLoop(files, dir, pats, root_dir, out, exts, indent) ==
    IF files = << >> THEN << >>
    ELSE FileBody(Head(files), PathJoin(dir, Head(files)), pats, root_dir, out, exts, indent)
         \o FileLoop(Tail(files), dir, pats, root_dir, out, exts, indent)

\* A variant of the two loops that goes through the files first.
ListItems_FilesFirst(items, dir, pats, root_dir, out, exts, indent) ==
    FileLoop(SelectSeq(items, LAMBDA x : IsFile(PathJoin(dir, x))),
             dir, pats, root_dir, out, exts, indent)
    \o DirLoop(SelectSeq(items, LAMBDA x : IsDir(PathJoin(dir, x))),
               dir, pats, root_dir, out, exts, indent)

\* get_directory_structure: items is the sorted listing; the directories
\* among it are gone through first, the files after them.
ListItems(items, dir, pats, root_dir, out, exts, indent) ==
    DirLoop(SelectSeq(items, LAMBDA x : IsDir(PathJoin(dir, x))),
            dir, pats, root_dir, out, exts, indent)
    \o FileLoop(SelectSeq(items, LAMBDA x : IsFile(PathJoin(dir, x))),
                dir, pats, root_dir, out, exts, indent)

get_directory_structure(dir, pats, root_dir, out, exts, indent) ==
    IF KindOf(dir) = "lockeddir" THEN << Line("denied", indent, << >>, dir, 0) >>
    ELSE IF ~CanList(dir) THEN << Line("error", indent, << >>, dir, 0) >>
    ELSE ListItems(Sorted(Listdir(dir)), dir, pats, root_dir, out, exts, indent)
         \o (IF dir = root_dir THEN Statistics(dir, pats, root_dir, out, exts)
             ELSE << >>)

(***************************************************************************)
(* The inputs: trees, ignore-files, command lines                          *)
(***************************************************************************)

\* The largest number of entries below the root in a generated tree.
MaxEntries == 2

\* The path of an entry below the root, from its names.
At(names) == Join(<< RootDir >> \o names, Sep)

\* The entries generated trees are drawn from, each with its kind.
Universe ==
    At(<< APy >>) :> "file" @@ At(<< OutTxt >>) :> "file"
    @@ At(<< ImgPY >>) :> "binary" @@ At(<< NMd >>) :> "unreadable"
    @@ At(<< CacheLog >>) :> "file" @@ At(<< F12345Py >>) :> "file"
    @@ At(<< Locked >>) :> "lockeddir" @@ At(<< D12345 >>) :> "dir"
    @@ At(<< Hidden >>) :> "dir" @@ At(<< Hidden, SecretTxt >>) :> "file"
    @@ At(<< Build >>) :> "dir" @@ At(<< Build, OutTxt >>) :> "file"
    @@ At(<< Src >>) :> "dir" @@ At(<< Src, MPy >>) :> "file"
    @@ At(<< Src, Dead >>) :> "dangling" @@ At(<< Src, Build >>) :> "dir"
    @@ At(<< Src, Lib >>) :> "dir" @@ At(<< Src, Lib, DPy >>) :> "file"

\* The subsets of U with at most k elements.
RECURSIVE SubsetsUpTo(_, _)
SubsetsUpTo(U, k) ==
    IF k = 0 THEN {{}}
    ELSE LET prev == SubsetsUpTo(U, k - 1)
         IN  prev \cup {S \cup {x} : S \in prev, x \in U}

\* A set of paths below the root that holds the parent of each of its paths.
PrefixClosed(S) == \A q \in S : Dirname(q) = RootDir \/ Dirname(q) \in S

\* The filesystem holding "/", the root directory and the given entries.
TreeOf(entries) ==
    [q \in {Sep, RootDir} |-> "dir"] @@ entries

GeneratedTrees ==
    {TreeOf([q \in S |-> Universe[q]]) :
        S \in {T \in SubsetsUpTo(DOMAIN Universe, MaxEntries) : PrefixClosed(T)}}

\* The tree of the round-trip scenario, without its ignore-file.
RoundTripTree ==
    TreeOf(At(<< APy >>) :> "file"
           @@ At(<< Hidden >>) :> "dir" @@ At(<< Hidden, SecretTxt >>) :> "file"
           @@ At(<< NodeModulesCache >>) :> "dir"
           @@ At(<< NodeModulesCache, XJs >>) :> "file"
           @@ At(<< Build >>) :> "dir" @@ At(<< Build, OutTxt >>) :> "file")

\* The tree of the extension-filter scenario.
FilterTree ==
    TreeOf(At(<< APy >>) :> "file" @@ At(<< BTxt >>) :> "file" @@ At(<< CMd >>) :> "file")

\* A tree with two levels of included directories beside files.
WideTree ==
    TreeOf(At(<< APy >>) :> "file" @@ At(<< BTxt >>) :> "file"
           @@ At(<< Src >>) :> "dir" @@ At(<< Src, MPy >>) :> "file"
           @@ At(<< Src, Lib >>) :> "dir" @@ At(<< Src, Lib, DPy >>) :> "file"
           @@ At(<< Docs >>) :> "dir" @@ At(<< Docs, RMd >>) :> "binary")

Trees == GeneratedTrees \cup {RoundTripTree, FilterTree, WideTree}

\* The ignore-file: absent, or present with its lines.
GitignoreChoices ==
    {[present |-> FALSE, lines |-> << >>],
     [present |-> TRUE, lines |-> << PatBuild >>],
     [present |-> TRUE, lines |-> << PatComment, << >>, PatTxt, PatMixed >>]}

OutputArgs == {None, OutInside, OutInBuild}

ExtensionArgs == {<< >>, ExtPyMd, ExtTXT}

(***************************************************************************)
(* The run                                                                 *)
(***************************************************************************)

Init ==
    \E t \in Trees, g \in GitignoreChoices, o \in OutputArgs, e \in ExtensionArgs :
        /\ tree = IF g.present
                  THEN (PathJoin(RootDir, GitignoreName) :> "file") @@ t
                  ELSE t
        /\ gitignoreLines = g.lines
        /\ outputArg = o
        /\ extensionsArg = e
        /\ pc = "main"
        /\ directory = << >>
        /\ output_file = << >>
        /\ extensions = << >>
        /\ patterns = << >>
        /\ structure = << >>
        /\ stack = << >>
        /\ walkRoot = << >>
        /\ walkFiles = << >>
        /\ written = << >>

\* main: the extensions, the directory and the output path from the
\* arguments.
ParseExtensions(arg) ==
    IF arg # << >>
    THEN LET parts == Split(arg, ",") IN [i \in 1..Len(parts) |-> Lower(parts[i])]
    ELSE << >>

DefaultOutput(directory_path) ==
    PathJoin(PathJoin(directory_path, DotDot),
             Basename(Normpath(directory_path)) \o DotTxt)

Main ==
    /\ pc = "main"
    /\ extensions' = ParseExtensions(extensionsArg)
    /\ directory' = Realpath(DirectoryArg)
    /\ output_file' = Abspath(IF outputArg # None
                              THEN Realpath(outputArg)
                              ELSE DefaultOutput(Realpath(DirectoryArg)))
    /\ pc' = "process"
    /\ UNCHANGED << outputArg, extensionsArg, tree, gitignoreLines, patterns,
                    structure, stack, walkRoot, walkFiles, written >>

\* process_directory: the patterns of the run.
ReadPatterns ==
    /\ pc = "process"
    /\ patterns' = Append(read_gitignore(directory), GitDirPattern)
    /\ pc' = "open"
    /\ UNCHANGED << outputArg, extensionsArg, tree, gitignoreLines, directory,
                    output_file, extensions, structure, stack, walkRoot,
                    walkFiles, written >>

\* Whether open(output_file, 'w') succeeds: the parent is a directory and
\* the path is free or a regular file.
CanOpenOutput ==
    /\ IsDir(Dirname(output_file))
    /\ KindOf(output_file) \in {"absent", "file", "binary"}

\* process_directory: the output file is created (or truncated) before
\* either walk starts.
OpenOutput ==
    /\ pc = "open"
    /\ CanOpenOutput
    /\ tree' = (output_file :> "file") @@ tree
    /\ pc' = "structure"
    /\ UNCHANGED << outputArg, extensionsArg, gitignoreLines, directory,
                    output_file, extensions, patterns, structure, stack,
                    walkRoot, walkFiles, written >>

\* process_directory: open() raises; the run ends with the exception.
OpenOutputFails ==
    /\ pc = "open"
    /\ ~CanOpenOutput
    /\ pc' = "crashed"
    /\ UNCHANGED << outputArg, extensionsArg, tree, gitignoreLines, directory,
                    output_file, extensions, patterns, structure, stack,
                    walkRoot, walkFiles, written >>

\* process_directory: the structural listing is computed and written; the
\* content walk os.walk(directory) is about to start.
WriteStructure ==
    /\ pc = "structure"
    /\ structure' = get_directory_structure(directory, patterns, directory,
                                            output_file, extensions, 0)
    /\ stack' = << directory >>
    /\ pc' = "walk"
    /\ UNCHANGED << outputArg, extensionsArg, tree, gitignoreLines, directory,
                    output_file, extensions, patterns, walkRoot, walkFiles, written >>

\* The content walk: os.walk moves to the next directory.  A directory that
\* cannot be scanned yields nothing; otherwise the ignored directories are
\* removed from dirs, the rest are walked later in the order os.walk lists
\* them, and the loop over files starts.
WalkNext ==
    /\ pc = "walk"
    /\ walkFiles = << >>
    /\ stack # << >>
    /\ LET top == Head(stack)
       IN  IF ~CanList(top)
           THEN /\ stack' = Tail(stack)
                /\ UNCHANGED << walkRoot, walkFiles >>
           ELSE LET dirs == {d \in WalkDirs(top) :
                               ~is_ignored(PathJoin(top, d), patterns, directory,
                                           output_file, extensions)}
                IN  \E dorder \in Orderings(dirs), forder \in Orderings(WalkNondirs(top)) :
                        /\ walkRoot' = top
                        /\ walkFiles' = forder
                        /\ stack' = [i \in 1..Len(dorder) |-> PathJoin(top, dorder[i])]
                                    \o Tail(stack)
    /\ UNCHANGED << outputArg, extensionsArg, tree, gitignoreLines, pc, directory,
                    output_file, extensions, patterns, structure, written >>

\* The file the loop body of the content walk is at.
FilePath == PathJoin(walkRoot, Head(walkFiles))

InFileLoop == pc = "walk" /\ walkFiles # << >>

FileIgnored == is_ignored(FilePath, patterns, directory, output_file, extensions)

\* One entry of the content section: the header path and what follows the
\* header ("text": the file's text, "binary": the placeholder, "error": the
\* inline error marker).
Entry(body) == [path |-> Relpath(FilePath, directory), body |-> body]

\* The content walk: an ignored file is passed over (continue).
SkipFile ==
    /\ InFileLoop
    /\ FileIgnored
    /\ walkFiles' = Tail(walkFiles)
    /\ UNCHANGED << outputArg, extensionsArg, tree, gitignoreLines, pc, directory,
                    output_file, extensions, patterns, structure, stack,
                    walkRoot, written >>

\* The content walk: os.path.getsize raises, outside any try; the exception
\* leaves process_directory and main.
StatFails ==
    /\ InFileLoop
    /\ ~Exists(FilePath)
    /\ ~FileIgnored
    /\ pc' = "crashed"
    /\ UNCHANGED << outputArg, extensionsArg, tree, gitignoreLines, directory,
                    output_file, extensions, patterns, structure, stack,
                    walkRoot, walkFiles, written >>

\* The content walk: header, then the text of the file.
WriteText ==
    /\ InFileLoop
    /\ KindOf(FilePath) = "file"
    /\ ~FileIgnored
    /\ written' = Append(written, Entry("text"))
    /\ walkFiles' = Tail(walkFiles)
    /\ UNCHANGED << outputArg, extensionsArg, tree, gitignoreLines, pc, directory,
                    output_file, extensions, patterns, structure, stack, walkRoot >>

\* The content walk: header, then UnicodeDecodeError is caught.
WriteBinary ==
    /\ InFileLoop
    /\ KindOf(FilePath) = "binary"
    /\ ~FileIgnored
    /\ written' = Append(written, Entry("binary"))
    /\ walkFiles' = Tail(walkFiles)
    /\ UNCHANGED << outputArg, extensionsArg, tree, gitignoreLines, pc, directory,
                    output_file, extensions, patterns, structure, stack, walkRoot >>

\* The content walk: header, then another exception of open/read is caught.
WriteError ==
    /\ InFileLoop
    /\ KindOf(FilePath) \in {"unreadable"} \cup DirKinds
    /\ ~FileIgnored
    /\ written' = Append(written, Entry("error"))
    /\ walkFiles' = Tail(walkFiles)
    /\ UNCHANGED << outputArg, extensionsArg, tree, gitignoreLines, pc, directory,
                    output_file, extensions, patterns, structure, stack, walkRoot >>

\* The content walk is exhausted; process_directory returns.
Finish ==
    /\ pc = "walk"
    /\ walkFiles = << >>
    /\ stack = << >>
    /\ pc' = "done"
    /\ UNCHANGED << outputArg, extensionsArg, tree, gitignoreLines, directory,
                    output_file, extensions, patterns, structure, stack,
                    walkRoot, walkFiles, written >>

Next ==
    \/ Main
    \/ ReadPatterns
    \/ OpenOutput
    \/ OpenOutputFails
    \/ WriteStructure
    \/ WalkNext
    \/ SkipFile
    \/ StatFails
    \/ WriteText
    \/ WriteBinary
    \/ WriteError
    \/ Finish

Spec == Init /\ [][Next]_vars

(***************************************************************************)
(* What the run produced                                                   *)
(***************************************************************************)

\* The structural listing has been written.
Listed == structure # << >>

\* The listing has just been written and the content walk has not begun
\* (the listing and the filesystem stay as they are from here on).
JustListed == pc = "walk" /\ walkRoot = << >>

\* The run is over: process_directory returned, or an exception ended it
\* after the listing was written.
Ended == pc = "done" \/ (pc = "crashed" /\ Listed)

LinesOf(kind) == {i \in 1..Len(structure) : structure[i].kind = kind}

\* The paths that have a file line, and those that have a directory line.
ListedFiles == {structure[i].path : i \in LinesOf("file")}
ListedDirs == {structure[i].path : i \in LinesOf("dir")}

\* The header paths of the content section.
WrittenPaths == {written[i].path : i \in 1..Len(written)}

\* The number a line of the statistics block shows.
Stat(kind) == structure[CHOOSE i \in LinesOf(kind) : TRUE].count

\* The entries of the scanned tree, the root excluded.
Below(q) == StartsWith(q, directory \o Sep)
Entries == {q \in DOMAIN tree : Below(q)}

\* q lies beneath directory d.
Beneath(q, d) == StartsWith(q, d \o Sep)

\* The verdict of the run's exclusion policy on q, under allow-list exts.
Verdict(q, exts) == is_ignored(q, patterns, directory, output_file, exts)

\* q is met by a walk that prunes excluded directories: each directory
\* between the root and q can be listed and is not excluded.
Met(q, exts) ==
    \A d \in Entries : Beneath(q, d) => (CanList(d) /\ ~Verdict(d, exts))

\* The entries a pruning walk reports as files, and those among them that
\* are included.
MetFiles(exts) == {q \in Entries : ~IsDir(q) /\ Met(q, exts)}
IncludedFiles(exts) == {q \in MetFiles(exts) : ~Verdict(q, exts)}

\* The number of entries of the content section for q.
EntriesFor(q) ==
    Cardinality({i \in 1..Len(written) : written[i].path = Relpath(q, directory)})

(***************************************************************************)
(* C1: the round-trip scenario                                             *)
(***************************************************************************)

GitignorePath == PathJoin(RootDir, GitignoreName)

\* The inputs of the scenario: the tree with a.py, .hidden/secret.txt,
\* node_modules_cache/x.js, build/out.txt and the ignore-file "build/", no
\* -o (the artifact is /p.txt, outside the tree) and no -e.
RoundTripScenario ==
    /\ gitignoreLines = << PatBuild >>
    /\ outputArg = None
    /\ extensionsArg = << >>
    /\ [q \in DOMAIN tree \ {Abspath(DefaultOutput(RootDir))} |-> tree[q]]
       = (GitignorePath :> "file") @@ RoundTripTree

\* C1 as stated: in the round-trip scenario the content section holds exactly
\* one file entry, a.py, and the statistics read "Total files included: 1".
C1_Original ==
    (RoundTripScenario /\ pc = "done")
    => /\ Len(written) = 1
       /\ WrittenPaths = {APy}
       /\ Stat("included") = 1

\* C1, amended: in the round-trip scenario the content section holds exactly
\* two file entries, the ignore-file .gitignore and a.py, and the statistics
\* read "Total files included: 2".
C1_RoundTrip ==
    (RoundTripScenario /\ pc = "done")
    => /\ Len(written) = 2
       /\ WrittenPaths = {GitignoreName, APy}
       /\ \A i \in 1..2 : written[i].body = "text"
       /\ ListedFiles = {GitignorePath, At(<< APy >>)}
       /\ Stat("included") = 2

C1_Witness == RoundTripScenario /\ pc = "done" /\ Len(written) = 2

(***************************************************************************)
(* C2: the two walks agree                                                 *)
(***************************************************************************)

\* C2 as stated: when the run is over, the files with a file line in the
\* listing are the files with an entry in the content section, and "Total
\* files included" is their number.
C2_Original ==
    Ended
    => /\ {Relpath(q, directory) : q \in ListedFiles} = WrittenPaths
       /\ Stat("included") = Cardinality(ListedFiles)

(***************************************************************************)
(* C3: the output artifact is never part of its own listing or content     *)
(***************************************************************************)

\* C3: the output artifact has no file line in the listing, and "Total files
\* included" counts the included files met by the walk, the output artifact
\* not being one of them; when the run is over, the output artifact has no
\* content entry.
C3_SelfExclusion ==
    /\ JustListed
       => /\ output_file \notin ListedFiles
          /\ LET included == IncludedFiles(extensions)
             IN  /\ output_file \notin included
                 /\ Stat("included") = Cardinality(included)
    /\ Ended
       => \A i \in 1..Len(written) :
              Abspath(PathJoin(directory, written[i].path)) # output_file

\* The output artifact lies in a listed directory of the scanned tree, and
\* other files were listed and written.
C3_Witness ==
    /\ pc = "done"
    /\ Below(output_file)
    /\ Dirname(output_file) \in ListedDirs
    /\ IsFile(output_file)
    /\ ListedFiles # {}
    /\ written # << >>

(***************************************************************************)
(* C4: excluded directories are pruned with their subtrees                 *)
(***************************************************************************)

\* C4: when the run is over, for every directory D below the root that the
\* policy excludes, neither D nor anything beneath D has a line in the
\* listing or an entry in the content section.
C4_SubtreePruning ==
    Ended
    => \A D \in {q \in Entries : IsDir(q) /\ Verdict(q, extensions)} :
          /\ \A i \in 1..Len(structure) :
                 structure[i].path # D /\ ~Beneath(structure[i].path, D)
          /\ \A i \in 1..Len(written) :
                 ~Beneath(PathJoin(directory, written[i].path), D)

\* A dot-directory that no pattern matches holds a file the policy would
\* include when judged on its own, and the run listed and wrote other files.
C4_Witness ==
    /\ pc = "done"
    /\ ListedFiles # {}
    /\ written # << >>
    /\ \E D \in Entries :
          /\ IsDir(D)
          /\ StartsWith(Basename(D), << "." >>)
          /\ ~PatternLoop(D, Relpath(D, directory), patterns, directory)
          /\ \E f \in Entries : Beneath(f, D) /\ IsFile(f) /\ ~Verdict(f, extensions)

(***************************************************************************)
(* C5: the extension filter                                                *)
(***************************************************************************)

\* The extension of q, lowercased and without its dot.
LowerExt(q) == Lower(From(SplitextExt(q), 1))

\* The files the walk meets that are excluded by the filter alone.
OnlyFiltered ==
    {q \in MetFiles(extensions) : Verdict(q, extensions) /\ ~Verdict(q, << >>)}

\* The inputs of the example: a.py, b.txt and c.md under -e py,md, with no
\* ignore-file and the artifact outside the tree.
FilterScenario ==
    /\ gitignoreLines = << >>
    /\ GitignorePath \notin DOMAIN tree
    /\ outputArg = None
    /\ extensionsArg = ExtPyMd
    /\ [q \in DOMAIN tree \ {Abspath(DefaultOutput(RootDir))} |-> tree[q]]
       = FilterTree

\* C5: an empty allow-list excludes nothing; a non-empty one excludes every
\* file whose lowercased extension is not listed and changes no directory's
\* verdict; against the unfiltered run on the same tree, the included count
\* falls and the excluded count rises by the number of files excluded by the
\* filter alone, and "Total files" is the same; -e py,md over a.py, b.txt,
\* c.md lists and writes a.py and c.md and excludes exactly b.txt. (The
\* verdicts and counts are stated of the listing when it has just been
\* written.)
C5_ExtensionFilter ==
    /\ JustListed
       => /\ \A q \in Entries : ~ExtensionExcludes(q, << >>)
          /\ \A q \in Entries :
                 (IsFile(q) /\ extensions # << >> /\ LowerExt(q) \notin Elems(extensions))
                 => Verdict(q, extensions)
          /\ \A q \in Entries : IsDir(q) => (Verdict(q, extensions) = Verdict(q, << >>))
          /\ LET only == OnlyFiltered
                 included0 == count_files(directory, patterns, directory, output_file, << >>)
                 excluded0 == count_excluded_files(directory, patterns, directory,
                                                   output_file, << >>)
             IN  /\ Stat("included") + Cardinality(only) = included0
                 /\ Stat("excluded") - Cardinality(only) = excluded0
                 /\ Stat("total") = included0 + excluded0
                 /\ FilterScenario
                    => /\ ListedFiles = {At(<< APy >>), At(<< CMd >>)}
                       /\ only = {At(<< BTxt >>)}
                       /\ Stat("included") = 2
                       /\ Stat("excluded") = 1
                       /\ included0 = 3
                       /\ excluded0 = 0
    /\ (FilterScenario /\ pc = "done") => WrittenPaths = {APy, CMd}

\* The listing of the example has been written, with its two file lines.
C5_Witness == FilterScenario /\ JustListed /\ Cardinality(ListedFiles) = 2

(***************************************************************************)
(* C6: the statistics count the whole tree                                 *)
(***************************************************************************)

\* C6 as stated: "Total files" is the number of files in the whole tree, the
\* files beneath excluded directories included, and "Total files excluded"
\* is the number of those that are not included.
C6_Original ==
    Listed
    => LET all == {q \in Entries : ~IsDir(q)}
       IN  /\ Stat("total") = Cardinality(all)
           /\ Stat("excluded") = Cardinality(all \ IncludedFiles(extensions))

(***************************************************************************)
(* C7: the content walk is best-effort                                     *)
(***************************************************************************)

\* C7 as stated: once the listing is written the run never aborts, and at
\* its end every included file of a listable directory has exactly one
\* content entry, with a text, a binary or an error body.
C7_Original ==
    /\ Listed => pc # "crashed"
    /\ pc = "done"
       => /\ \A q \in IncludedFiles(extensions) : EntriesFor(q) = 1
          /\ \A i \in 1..Len(written) : written[i].body \in {"text", "binary", "error"}

(***************************************************************************)
(* C8: is_ignored is the disjunction of its six rules                      *)
(***************************************************************************)

Rule1(q) == Abspath(q) = Abspath(output_file)
Rule2(q) == IsDir(q) /\ StartsWith(Basename(q), << "." >>)
Rule3(q) == Contains(Lower(Basename(q)), CacheWord)
Rule4(q) == IsFile(q) /\ HasDigitRun(Basename(q))
Rule5(q, pats) ==
    LET rel == Relpath(q, directory)
    IN  \E i \in 1..Len(pats) : PatternExcludes(q, rel, pats[i], directory)
Rule6(q, exts) ==
    /\ exts # << >>
    /\ IsFile(q)
    /\ LowerExt(q) \notin Elems(exts)

\* The allow-lists a verdict is compared under.
AllowLists == {<< >>, ParseExtensions(ExtPyMd), ParseExtensions(ExtTXT)}

\* C8: for the patterns and the output artifact of the run, the verdict on
\* every entry is the disjunction of rules 1 to 6, it is the same under every
\* order of the pattern list, and a file with a run of five digits in its
\* name is excluded under every allow-list.
C8_Disjunction ==
    pc = "structure"
    => \A q \in Entries :
          /\ Verdict(q, extensions)
             = (Rule1(q) \/ Rule2(q) \/ Rule3(q) \/ Rule4(q)
                \/ Rule5(q, patterns) \/ Rule6(q, extensions))
          /\ \A perm \in Orderings(1..Len(patterns)) :
                 LET permuted == [i \in 1..Len(patterns) |-> patterns[perm[i]]]
                 IN  permuted # patterns
                     => is_ignored(q, permuted, directory, output_file, extensions)
                        = Verdict(q, extensions)
          /\ (IsFile(q) /\ HasDigitRun(Basename(q)))
             => \A exts \in AllowLists : Verdict(q, exts)

\* cache12345.log, which rule 3 and rule 4 both exclude, is judged under a
\* pattern list of three patterns.
C8_Witness ==
    /\ pc = "structure"
    /\ Len(patterns) = 3
    /\ At(<< CacheLog >>) \in Entries
    /\ Rule3(At(<< CacheLog >>))
    /\ Rule4(At(<< CacheLog >>))
    /\ Verdict(At(<< CacheLog >>), extensions)

(***************************************************************************)
(* C9: the counts of the listing                                           *)
(***************************************************************************)

\* C9 as stated: the number in a directory line's "(N files)" is the number
\* of file lines beneath that directory, and "Total files included" is the
\* number of file lines of the whole listing.
C9_Original ==
    Listed
    => /\ \A i \in LinesOf("dir") :
              structure[i].count
              = Cardinality({q \in ListedFiles : Beneath(q, structure[i].path)})
       /\ Stat("included") = Cardinality(ListedFiles)

(***************************************************************************)
(* C10: the order of the listing                                           *)
(***************************************************************************)

EntryKinds == {"dir", "file", "denied", "error"}

\* The lines of the subtree of the directory line i.
SubtreeLines(i) ==
    {k \in 1..Len(structure) :
        \/ Beneath(structure[k].path, structure[i].path)
        \/ /\ structure[k].kind \in {"denied", "error"}
           /\ structure[k].path = structure[i].path}

\* Lines i and j are lines of entries of one directory.
Siblings(i, j) ==
    /\ structure[i].kind \in {"dir", "file"}
    /\ structure[j].kind \in {"dir", "file"}
    /\ Dirname(structure[i].path) = Dirname(structure[j].path)

\* C10: in the listing, when it has just been written, within a directory the subdirectory lines come before the file
\* lines, each kind in ascending order of name; a subdirectory line is
\* followed at once by the whole listing of its subtree; the statistics block
\* is written once, by the root call, after every entry line.
C10_ListingOrder ==
    JustListed
    => LET n == Len(structure)
       IN  /\ \A i \in 1..n : \A j \in (i + 1)..n :
                  Siblings(i, j)
                  => /\ structure[i].kind = "file" => structure[j].kind = "file"
                     /\ structure[i].kind = structure[j].kind
                        => StrLess(structure[i].name, structure[j].name)
           /\ \A i \in LinesOf("dir") :
                  SubtreeLines(i) = (i + 1)..(i + Cardinality(SubtreeLines(i)))
           /\ n >= 5
           /\ \A i \in 1..(n - 5) : structure[i].kind \in EntryKinds
           /\ [i \in 1..5 |-> structure[n - 5 + i].kind]
              = << "blank", "header", "included", "excluded", "total" >>

\* Two subdirectory lines and two file lines of the root, one of the
\* subdirectories with a subdirectory and a file of its own.
C10_Witness ==
    /\ JustListed
    /\ \E i, j \in LinesOf("dir") :
          /\ i < j
          /\ Siblings(i, j)
          /\ \E k \in SubtreeLines(j) : structure[k].kind = "dir"
          /\ \E k \in SubtreeLines(j) :
                 structure[k].kind = "file" /\ Dirname(structure[k].path) = structure[j].path
          /\ \E a, b \in LinesOf("file") : a < b /\ Siblings(i, a) /\ Siblings(a, b)

=============================================================================
